---- MODULE Spec2Model ----
(***************************************************************************)
(* A model of uproot_methods/classes/TVector3.py: the scalar 3-vector      *)
(* (TVector3), the columnar 3-vector (TVector3Array), the geometry kernel  *)
(* they share (class Common) and the elementwise dispatch                  *)
(* (__array_ufunc__) of the columnar form.                                 *)
(*                                                                         *)
(* Numbers are the floats that exact arithmetic determines: rationals      *)
(* <<n, d>> (d > 0, lowest terms), the IEEE specials <<1,0>> (+inf),       *)
(* <<-1,0>> (-inf), <<0,0>> (NaN) and the negative zero <<0,-1>> (-0.0;    *)
(* <<0,1>> is +0.0).  A result that floating point rounds (a quotient that *)
(* is not dyadic, an irrational root, the cosine or sine of a nonzero      *)
(* angle) is Unk, <<2,0>>: some float, which one the model does not say.   *)
(* Unk is equal to nothing, and whatever is computed from it is Unk.       *)
(* Angles are in radians.                                                  *)
(***************************************************************************)
EXTENDS Integers, Sequences, FiniteSets, TLC

VARIABLES heap, call, ret, applied

vars == <<heap, call, ret, applied>>

(* Bounds of the model. *)
MaxCoord == 1
MaxLen == 2

Coord == -1 .. MaxCoord
(* the angles, in radians: 0, where cos and sin are exact, and 1 *)
Angles == {0, 1}

(***************************************************************************)
(* The numeric layer: Python / numpy arithmetic on exact values.           *)
(***************************************************************************)
Abs(n) == IF n < 0 THEN -n ELSE n

Sign(n) == IF n < 0 THEN -1 ELSE IF n = 0 THEN 0 ELSE 1

Min2(a, b) == IF a < b THEN a ELSE b

RECURSIVE GCD(_, _)
GCD(a, b) == IF b = 0 THEN a ELSE GCD(b, a % b)

Norm(n, d) ==
    IF d = 0 THEN <<Sign(n), 0>>
    ELSE LET g == GCD(Abs(n), Abs(d))
             s == IF d < 0 THEN -1 ELSE 1
         IN  <<(s * n) \div g, (s * d) \div g>>

Rat(i) == <<i, 1>>

NaN == <<0, 0>>

Unk == <<2, 0>>

IsNaN(a) == a = NaN

IsUnk(a) == a = Unk

IsInf(a) == a[2] = 0 /\ a[1] \in {-1, 1}

IsZero(a) == a[1] = 0 /\ a[2] # 0

(* the sign bit of a float *)
IsNeg(a) == a[1] < 0 \/ a = <<0, -1>>

(* a is zero, or may be for all the model determines *)
MayBeZero(a) == IsZero(a) \/ IsUnk(a)

Zero(neg) == IF neg THEN <<0, -1>> ELSE <<0, 1>>

Inf(neg) == IF neg THEN <<-1, 0>> ELSE <<1, 0>>

RECURSIVE IsPow2(_)
IsPow2(d) == d = 1 \/ (d > 1 /\ d % 2 = 0 /\ IsPow2(d \div 2))

(* the float nearest to the rational a is a itself when a is dyadic *)
Rounded(a) == IF a[2] = 0 \/ IsPow2(Abs(a[2])) THEN a ELSE Unk

NumMul(a, b) ==
    IF IsNaN(a) \/ IsNaN(b) THEN NaN
    ELSE IF IsUnk(a) \/ IsUnk(b) THEN Unk
    ELSE IF (IsInf(a) /\ IsZero(b)) \/ (IsZero(a) /\ IsInf(b)) THEN NaN
    ELSE IF IsZero(a) \/ IsZero(b) THEN Zero(IsNeg(a) # IsNeg(b))
    ELSE Norm(a[1] * b[1], a[2] * b[2])

NumAdd(a, b) ==
    IF IsNaN(a) \/ IsNaN(b) THEN NaN
    ELSE IF IsUnk(a) \/ IsUnk(b) THEN Unk
    ELSE IF a[2] = 0 /\ b[2] = 0 THEN (IF a = b THEN a ELSE NaN)
    ELSE IF a[2] = 0 THEN a
    ELSE IF b[2] = 0 THEN b
    ELSE IF IsZero(a) /\ IsZero(b) THEN Zero(IsNeg(a) /\ IsNeg(b))
    ELSE Norm(a[1] * Abs(b[2]) + b[1] * Abs(a[2]), Abs(a[2]) * Abs(b[2]))

NumNeg(a) ==
    IF IsUnk(a) THEN Unk
    ELSE IF IsZero(a) THEN Zero(~IsNeg(a))
    ELSE <<-a[1], a[2]>>

NumSub(a, b) == NumAdd(a, NumNeg(b))

NumRecip(a) ==
    IF IsNaN(a) THEN NaN
    ELSE IF IsUnk(a) THEN Unk
    ELSE IF IsZero(a) THEN Inf(IsNeg(a))
    ELSE IF IsInf(a) THEN Zero(IsNeg(a))
    ELSE Rounded(Norm(a[2], a[1]))

NumDiv(a, b) ==
    IF IsNaN(a) \/ IsNaN(b) THEN NaN
    ELSE IF IsUnk(a) \/ IsUnk(b) THEN Unk
    ELSE IF IsZero(a) \/ IsInf(a) \/ IsZero(b) \/ IsInf(b) THEN NumMul(a, NumRecip(b))
    ELSE Rounded(Norm(a[1] * b[2], a[2] * b[1]))

IsSquare(n) == n >= 0 /\ \E r \in 0 .. n : r * r = n

ISqrt(n) == CHOOSE r \in 0 .. n : r * r = n

(* numpy.sqrt *)
NumSqrt(a) ==
    IF IsNaN(a) \/ a[1] < 0 THEN NaN
    ELSE IF IsUnk(a) THEN Unk
    ELSE IF IsInf(a) \/ IsZero(a) THEN a
    ELSE IF IsSquare(a[1]) /\ IsSquare(a[2]) THEN <<ISqrt(a[1]), ISqrt(a[2])>>
    ELSE Unk

(* numpy.cos / numpy.sin of an angle in radians: exact at the angle zero *)
NumCos(a) ==
    IF IsNaN(a) \/ IsInf(a) THEN NaN
    ELSE IF IsZero(a) THEN Rat(1)
    ELSE Unk

NumSin(a) ==
    IF IsNaN(a) \/ IsInf(a) THEN NaN
    ELSE IF IsZero(a) THEN a
    ELSE Unk

(* numpy.modf: (fractional part, integral part), both with the sign of a *)
NumTrunc(a) ==
    IF a[2] = 0 THEN a
    ELSE IF Abs(a[1]) < Abs(a[2]) THEN Zero(IsNeg(a))
    ELSE Rat(Sign(a[1]) * (Abs(a[1]) \div a[2]))

NumFrac(a) ==
    IF IsNaN(a) THEN NaN
    ELSE IF IsUnk(a) THEN Unk
    ELSE IF IsInf(a) THEN Zero(IsNeg(a))
    ELSE IF a = NumTrunc(a) THEN Zero(IsNeg(a))
    ELSE NumSub(a, NumTrunc(a))

(***************************************************************************)
(* Values: a plain scalar (dim 0) or a one-dimensional array (dim 1), with *)
(* numpy's broadcasting of a scalar against an array.  NoCol is the column *)
(* of a table that has not been assigned yet.                              *)
(***************************************************************************)
Sc(q) == [dim |-> 0, at |-> <<q>>]

Arr(s) == [dim |-> 1, at |-> s]

NoCol == [dim |-> -1, at |-> <<>>]

Num(i) == Sc(Rat(i))

El(a, i) == IF a.dim = 0 THEN a.at[1] ELSE a.at[i]

Lift1(F(_), a) ==
    [dim |-> a.dim, at |-> SubSeq([i \in 1 .. Len(a.at) |-> F(a.at[i])], 1, Len(a.at))]

Lift2(F(_, _), a, b) ==
    IF a.dim = 0 /\ b.dim = 0
    THEN Sc(F(a.at[1], b.at[1]))
    ELSE LET n == IF a.dim = 0 THEN Len(b.at) ELSE Len(a.at)
         IN  Arr(SubSeq([i \in 1 .. n |-> F(El(a, i), El(b, i))], 1, n))

Mul(a, b) == Lift2(NumMul, a, b)

Add(a, b) == Lift2(NumAdd, a, b)

Sub(a, b) == Lift2(NumSub, a, b)

Div(a, b) == Lift2(NumDiv, a, b)

Neg(a) == Lift1(NumNeg, a)

Pow2(a) == Mul(a, a)

Sqrt(a) == Lift1(NumSqrt, a)

Cos(a) == Lift1(NumCos, a)

Sin(a) == Lift1(NumSin, a)

(***************************************************************************)
(* Objects.  A scalar vector holds three scalars _fX, _fY, _fZ; a columnar *)
(* vector is a table of `length` rows with the columns fX, fY, fZ.         *)
(***************************************************************************)
Null == [kind |-> "null", length |-> 0, fX |-> NoCol, fY |-> NoCol, fZ |-> NoCol]

(* TVector3.__init__ *)
TVector3(x, y, z) == [kind |-> "TVector3", length |-> 0, fX |-> x, fY |-> y, fZ |-> z]

(* awkward.Table(length): a table of `length` rows and no column *)
Table(n) == [kind |-> "TVector3Array", length |-> n, fX |-> NoCol, fY |-> NoCol, fZ |-> NoCol]

(* table[name] = value: the table shows the first `length` entries of the column *)
SetItem(t, name, value) ==
    [t EXCEPT ![name] = IF value.dim = 1
                        THEN Arr(SubSeq(value.at, 1, Min2(Len(value.at), t.length)))
                        ELSE Arr(SubSeq([i \in 1 .. t.length |-> value.at[1]], 1, t.length))]

IsArray(o) == o.kind = "TVector3Array"

IsScalar(o) == o.kind = "TVector3"

(* the heap slot a new object is allocated in, the first free one: slot 1 holds
   the first object made, the receiver of the calls; slot 2 is kept for the
   vector argument of a call; 3 and 4 hold the results of a call *)
Slots == {1, 3, 4}

Fresh(h) == CHOOSE i \in Slots : h[i].kind = "null" /\ \A j \in Slots : j < i => h[j].kind # "null"

(* the value a singleton set holds: names the result of an expression once *)
Only(S) == CHOOSE x \in S : TRUE

(* what a call returns or raises *)
NoRet == [tag |-> "init", exc |-> "", kind |-> "", ids |-> <<>>, val |-> NoCol]

RetVec(id) == [tag |-> "return", exc |-> "", kind |-> "vec", ids |-> <<id>>, val |-> NoCol]

RetTuple(ids) == [tag |-> "return", exc |-> "", kind |-> "tuple", ids |-> ids, val |-> NoCol]

RetVal(v) == [tag |-> "return", exc |-> "", kind |-> "val", ids |-> <<>>, val |-> v]

RetNone == [tag |-> "return", exc |-> "", kind |-> "None", ids |-> <<>>, val |-> NoCol]

Raise(e) == [tag |-> "raise", exc |-> e, kind |-> "", ids |-> <<>>, val |-> NoCol]

(***************************************************************************)
(* The vector interface the module builds on (uproot_methods.common.       *)
(* TVector and uproot_methods.base): rho, mag, unit, empty_like and like.  *)
(***************************************************************************)
mag2(v) == Add(Add(Mul(v.fX, v.fX), Mul(v.fY, v.fY)), Mul(v.fZ, v.fZ))

mag(v) == Sqrt(mag2(v))

(* the vector divided by its own magnitude *)
Scaled(v, m) == [v EXCEPT !.fX = Div(@, m), !.fY = Div(@, m), !.fZ = Div(@, m)]

unit(v) == Scaled(v, mag(v))

(* sqrt(x^2 + y^2), kept as a term: the root is irrational in general *)
rho(v) == [fn |-> "sqrt", a |-> Add(Pow2(v.fX), Pow2(v.fY)), b |-> NoCol]

(* a new table of the same row count whose columns are not assigned yet *)
empty_like(v) == Table(v.length)

(* the raw sequence wrapped as a view of one scalar per row of v *)
like(v, value) == [fn |-> "like", a |-> value, b |-> Num(v.length)]

(* every coordinate of v is a float the model determines *)
Determined(v) ==
    \A name \in {"fX", "fY", "fZ"} : \A i \in 1 .. Len(v[name].at) : ~IsUnk(v[name].at[i])

(* v and v.unit() are determined: the magnitude and the quotients are exact *)
ExactMag(v) == Determined(v) /\ Determined(unit(v))

ZeroMag(v) == \E i \in 1 .. Len(mag2(v).at) : IsZero(mag2(v).at[i])

(* the magnitude of v is zero in some row, or may be for all the model determines *)
MayBeZeroMag(v) == \E i \in 1 .. Len(mag2(v).at) : MayBeZero(mag2(v).at[i])

(***************************************************************************)
(* class Common: the geometry kernel shared by both forms.                 *)
(***************************************************************************)
Common_dot(self, other) ==
    LET out0 == Mul(self.fX, other.fX)
        out1 == Add(out0, Mul(self.fY, other.fY))
        out2 == Add(out1, Mul(self.fZ, other.fZ))
    IN  out2

(* the third component with the wrong sign between its terms *)
Common_cross_plus(self, other) ==
    << Sub(Mul(self.fY, other.fZ), Mul(self.fZ, other.fY)),
       Sub(Mul(self.fZ, other.fX), Mul(self.fX, other.fZ)),
       Add(Mul(self.fX, other.fY), Mul(self.fY, other.fX)) >>

Common_cross(self, other) ==
    << Sub(Mul(self.fY, other.fZ), Mul(self.fZ, other.fY)),
       Sub(Mul(self.fZ, other.fX), Mul(self.fX, other.fZ)),
       Sub(Mul(self.fX, other.fY), Mul(self.fY, other.fX)) >>

Common_cottheta(self) == [fn |-> "true_divide", a |-> rho(self), b |-> self.fZ]

(* the matrix of the rotation about the unit vector u applied to self, given
   c = cos(angle), s = sin(angle) and c1 = 1 - c *)
Common_rotate_axis_matrix(self, u, c, s, c1) ==
    LET x == Add(Add(Mul(Add(c, Mul(Pow2(u.fX), c1)), self.fX),
                     Mul(Sub(Mul(Mul(u.fX, u.fY), c1), Mul(u.fZ, s)), self.fY)),
                 Mul(Add(Mul(Mul(u.fX, u.fZ), c1), Mul(u.fY, s)), self.fZ))
        y == Add(Add(Mul(Add(Mul(Mul(u.fX, u.fY), c1), Mul(u.fZ, s)), self.fX),
                     Mul(Add(c, Mul(Pow2(u.fY), c1)), self.fY)),
                 Mul(Sub(Mul(Mul(u.fY, u.fZ), c1), Mul(u.fX, s)), self.fZ))
        z == Add(Add(Mul(Sub(Mul(Mul(u.fX, u.fZ), c1), Mul(u.fY, s)), self.fX),
                     Mul(Add(Mul(Mul(u.fY, u.fZ), c1), Mul(u.fX, s)), self.fY)),
                 Mul(Add(c, Mul(Pow2(u.fZ), c1)), self.fZ))
    IN  <<x, y, z>>

(* c1 = 1 + c in place of c1 = 1 - c *)
Common_rotate_axis_c1(self, axis, angle) ==
    Common_rotate_axis_matrix(self, unit(axis), Cos(angle), Sin(angle), Add(Num(1), Cos(angle)))

Common_rotate_axis(self, axis, angle) ==
    Common_rotate_axis_matrix(self, unit(axis), Cos(angle), Sin(angle), Sub(Num(1), Cos(angle)))

Common_rotate_euler(self, phi, theta, psi) ==
    LET c1 == Cos(phi)
        s1 == Sin(phi)
        c2 == Cos(theta)
        s2 == Sin(theta)
        c3 == Cos(psi)
        s3 == Sin(psi)
        fzx2 == Mul(Neg(s2), c1)
        fzy2 == Mul(s2, s1)
        fzz2 == c2
        fxx3 == Sub(Mul(Mul(c3, c2), c1), Mul(s3, s1))
        fxy3 == Sub(Mul(Mul(Neg(c3), c2), s1), Mul(s3, c1))
        fxz3 == Mul(c3, s2)
        fyx3 == Add(Mul(Mul(s3, c2), c1), Mul(c3, s1))
        fyy3 == Add(Mul(Mul(Neg(s3), c2), s1), Mul(c3, c1))
        fyz3 == Mul(s3, s2)
        x == Add(Add(Mul(fxx3, self.fX), Mul(fxy3, self.fY)), Mul(fxz3, self.fZ))
        y == Add(Add(Mul(fyx3, self.fX), Mul(fyy3, self.fY)), Mul(fyz3, self.fZ))
        z == Add(Add(Mul(fzx2, self.fX), Mul(fzy2, self.fY)), Mul(fzz2, self.fZ))
    IN  <<x, y, z>>

(***************************************************************************)
(* The outcome of a handler: the heap it leaves, what it returns or raises *)
(* and the number of ufunc applications it made.                           *)
(***************************************************************************)
Outcome(h, r, n) == [heap |-> h, ret |-> r, applied |-> n]

(* class Methods defines no constructor: Methods(x, y, z) raises TypeError *)
Methods_new(x, y, z) == [ok |-> FALSE, exc |-> "TypeError", obj |-> Null]

(***************************************************************************)
(* class Methods: the scalar form.                                         *)
(***************************************************************************)
Methods_cross(h, self, other) ==
    Only({Outcome([h EXCEPT ![out] = TVector3(k[1], k[2], k[3])], RetVec(out), 0) :
             k \in {Common_cross(h[self], h[other])}, out \in {Fresh(h)}})

Methods_theta(h, self) ==
    Outcome(h, RetVal([fn |-> "atan2", a |-> rho(h[self]), b |-> h[self].fZ]), 0)

Methods_rotate_axis(h, self, axis, angle, fault) ==
    IF fault /\ IsScalar(h[axis]) /\ MayBeZeroMag(h[axis])
    THEN Outcome(h, Raise("ZeroDivisionError"), 0)
    ELSE Only({Outcome([h EXCEPT ![out] = TVector3(k[1], k[2], k[3])], RetVec(out), 0) :
                  k \in {Common_rotate_axis(h[self], h[axis], angle)}, out \in {Fresh(h)}})

(* the body names x, y and z, which nothing binds *)
Methods_rotate_euler(h, self, phi, theta, psi) == Outcome(h, Raise("NameError"), 0)

Methods_set(h, self, name, value) == Outcome([h EXCEPT ![self][name] = value], RetNone, 0)

(***************************************************************************)
(* class ArrayMethods: the columnar form.                                  *)
(***************************************************************************)
Filled(t, x, y, z) == SetItem(SetItem(SetItem(t, "fX", x), "fY", y), "fZ", z)

(* the result written into the receiver in place of a new table *)
ArrayMethods_cross_inplace(h, self, other) ==
    Only({Outcome([h EXCEPT ![self] = Filled(@, k[1], k[2], k[3])], RetVec(self), 0) :
             k \in {Common_cross(h[self], h[other])}})

ArrayMethods_cross(h, self, other) ==
    Only({Outcome([h EXCEPT ![out] = Filled(empty_like(h[self]), k[1], k[2], k[3])],
                  RetVec(out), 0) :
             k \in {Common_cross(h[self], h[other])}, out \in {Fresh(h)}})

ArrayMethods_theta(h, self) ==
    Outcome(h, RetVal(like(h[self], [fn |-> "arctan2", a |-> rho(h[self]), b |-> h[self].fZ])), 0)

ArrayMethods_rotate_axis(h, self, axis, angle, fault) ==
    IF fault /\ IsScalar(h[axis]) /\ MayBeZeroMag(h[axis])
    THEN Outcome(h, Raise("ZeroDivisionError"), 0)
    ELSE Only({Outcome([h EXCEPT ![out] = Filled(empty_like(h[self]), k[1], k[2], k[3])],
                       RetVec(out), 0) :
                  k \in {Common_rotate_axis(h[self], h[axis], angle)}, out \in {Fresh(h)}})

ArrayMethods_rotate_euler(h, self, phi, theta, psi) ==
    Only({Outcome([h EXCEPT ![out] = Filled(empty_like(h[self]), k[1], k[2], k[3])],
                  RetVec(out), 0) :
             k \in {Common_rotate_euler(h[self], phi, theta, psi)}, out \in {Fresh(h)}})

ArrayMethods_set(h, self, name, value) ==
    Outcome([h EXCEPT ![self] = SetItem(@, name, value)], RetNone, 0)

(* getattr(ufunc, method) applied to the inputs: the result is one value, or a tuple of them *)
Ufunc(ufunc, method, ins) ==
    IF method = "__call__"
    THEN CASE ufunc = "add" -> [tuple |-> FALSE, outs |-> <<Add(ins[1], ins[2])>>]
           [] ufunc = "multiply" -> [tuple |-> FALSE, outs |-> <<Mul(ins[1], ins[2])>>]
           [] ufunc = "negative" -> [tuple |-> FALSE, outs |-> <<Neg(ins[1])>>]
           [] ufunc = "modf" ->
                [tuple |-> TRUE, outs |-> <<Lift1(NumFrac, ins[1]), Lift1(NumTrunc, ins[1])>>]
    ELSE [tuple |-> FALSE, outs |-> <<NoCol>>]

(* a mis-split of the operands: every position is given the x column *)
ufunc_inputs_all_x(h, inputs, name) ==
    [i \in 1 .. Len(inputs) |->
        IF inputs[i].id # 0 /\ IsArray(h[inputs[i].id])
        THEN h[inputs[i].id].fX
        ELSE inputs[i].val]

(* the operands at one axis position: the column of that name of a columnar
   vector, a plain operand as it is *)
ufunc_inputs(h, inputs, name) ==
    [i \in 1 .. Len(inputs) |->
        IF inputs[i].id # 0 /\ IsArray(h[inputs[i].id])
        THEN h[inputs[i].id][name]
        ELSE inputs[i].val]

ArrayMethods_array_ufunc(h, self, ufunc, method, inputs) ==
    IF method # "__call__"
    THEN Outcome(h, Raise("TypeError"), 0)
    ELSE LET inputsx == ufunc_inputs(h, inputs, "fX")
             inputsy == ufunc_inputs(h, inputs, "fY")
             inputsz == ufunc_inputs(h, inputs, "fZ")
             resultx == Ufunc(ufunc, method, inputsx)
             resulty == Ufunc(ufunc, method, inputsy)
             resultz == Ufunc(ufunc, method, inputsz)
         IN  IF resultx.tuple /\ resulty.tuple /\ resultz.tuple
             THEN LET n == Min2(Len(resultx.outs), Min2(Len(resulty.outs), Len(resultz.outs)))
                      hn == [i \in DOMAIN h |->
                               IF i \in 3 .. (2 + n)
                               THEN Filled(empty_like(h[self]), resultx.outs[i - 2],
                                           resulty.outs[i - 2], resultz.outs[i - 2])
                               ELSE h[i]]
                  IN  Outcome(hn, RetTuple([i \in 1 .. n |-> 2 + i]), 3)
             ELSE IF method = "at"
             THEN Outcome(h, RetNone, 3)
             ELSE LET out == Fresh(h)
                      h0 == [h EXCEPT ![out] = empty_like(h[self])]
                  IN  Outcome([h0 EXCEPT ![out] = Filled(@, resultx.outs[1], resulty.outs[1],
                                                         resultz.outs[1])],
                              RetVec(out), 3)

(***************************************************************************)
(* class Common: the methods both forms inherit.                           *)
(***************************************************************************)
rotate_axis(h, self, axis, angle, fault) ==
    IF IsArray(h[self])
    THEN ArrayMethods_rotate_axis(h, self, axis, angle, fault)
    ELSE Methods_rotate_axis(h, self, axis, angle, fault)

(* self.rotate_axis(Methods(x, y, z), angle) *)
Common_rotate(h, self, x, y, z, angle) ==
    LET axis == Methods_new(Num(x), Num(y), Num(z))
    IN  IF ~axis.ok
        THEN Outcome(h, Raise(axis.exc), 0)
        ELSE Only({Outcome([r.heap EXCEPT ![2] = h[2]], r.ret, r.applied) :
                      r \in {rotate_axis([h EXCEPT ![2] = axis.obj], self, 2, angle, FALSE)}})

Common_rotatex(h, self, angle) == Common_rotate(h, self, 1, 0, 0, angle)

Common_rotatey(h, self, angle) == Common_rotate(h, self, 0, 1, 0, angle)

Common_rotatez(h, self, angle) == Common_rotate(h, self, 0, 0, 1, angle)

(***************************************************************************)
(* The constructors.                                                       *)
(***************************************************************************)
(* a table as long as x alone *)
TVector3Array_len_x(x, y, z) == Filled(Table(Len(x.at)), x, y, z)

TVector3Array(x, y, z) ==
    Filled(Table(Min2(Len(x.at), Min2(Len(y.at), Len(z.at)))), x, y, z)

TVector3_from_cylindrical(rho_, phi, z) ==
    TVector3(Mul(rho_, Cos(phi)), Mul(rho_, Sin(phi)), z)

(* def from_cylindrical(cls, r, rho, phi, z): four arguments after cls *)
TVector3Array_from_cylindrical(h, args) ==
    IF Len(args) # 4
    THEN Outcome(h, Raise("TypeError"), 0)
    ELSE LET rho_ == args[2]
             phi == args[3]
             z == args[4]
             out == Fresh(h)
         IN  Outcome([h EXCEPT ![out] = TVector3Array(Mul(rho_, Cos(phi)),
                                                      Mul(rho_, Sin(phi)), z)],
                     RetVec(out), 0)

(* TVector3Array(x, y, z) and TVector3(x, y, z) as calls *)
TVector3Array_new(h, x, y, z) ==
    LET out == Fresh(h)
    IN  Outcome([h EXCEPT ![out] = TVector3Array(x, y, z)], RetVec(out), 0)

TVector3_new(h, x, y, z) ==
    LET out == Fresh(h)
    IN  Outcome([h EXCEPT ![out] = TVector3(x, y, z)], RetVec(out), 0)

TVector3_from_cylindrical_new(h, rho_, phi, z) ==
    LET out == Fresh(h)
    IN  Outcome([h EXCEPT ![out] = TVector3_from_cylindrical(rho_, phi, z)], RetVec(out), 0)

(* numpy.zeros(shape) for a one-dimensional shape *)
zeros(shape) == Arr(SubSeq([i \in 1 .. shape |-> Rat(0)], 1, shape))

TVector3_origin(h) == TVector3_new(h, Num(0), Num(0), Num(0))

TVector3_from_spherical(h, r, theta_, phi) ==
    TVector3_new(h, Mul(Mul(r, Sin(theta_)), Cos(phi)),
                    Mul(Mul(r, Sin(theta_)), Sin(phi)),
                    Mul(r, Cos(theta_)))

TVector3Array_origin(h, shape) == TVector3Array_new(h, zeros(shape), zeros(shape), zeros(shape))

(* array is a plain one-dimensional array: its shape is its length *)
TVector3Array_origin_like(h, array) == TVector3Array_origin(h, Len(array.at))

TVector3Array_from_spherical(h, r, theta_, phi) ==
    TVector3Array_new(h, Mul(Mul(r, Sin(theta_)), Cos(phi)),
                         Mul(Mul(r, Sin(theta_)), Sin(phi)),
                         Mul(r, Cos(theta_)))

(* dispatch on the form of the receiver *)
cross(h, self, other) ==
    IF IsArray(h[self]) THEN ArrayMethods_cross(h, self, other) ELSE Methods_cross(h, self, other)

dot(h, self, other) == Outcome(h, RetVal(Common_dot(h[self], h[other])), 0)

(* out = self.rho(); out /= self.z : a Python scalar divided by zero raises, a
   numpy value gives inf or nan *)
cottheta(h, self, fault) ==
    IF fault /\ IsScalar(h[self]) /\ MayBeZero(h[self].fZ.at[1])
    THEN Outcome(h, Raise("ZeroDivisionError"), 0)
    ELSE Outcome(h, RetVal(Common_cottheta(h[self])), 0)

theta(h, self) ==
    IF IsArray(h[self]) THEN ArrayMethods_theta(h, self) ELSE Methods_theta(h, self)

(* rotate_euler(self, phi=0, theta=0, psi=0) *)
rotate_euler(h, self, args) ==
    LET phi == IF Len(args) >= 1 THEN Num(args[1]) ELSE Num(0)
        theta_ == IF Len(args) >= 2 THEN Num(args[2]) ELSE Num(0)
        psi == IF Len(args) >= 3 THEN Num(args[3]) ELSE Num(0)
    IN  IF IsArray(h[self])
        THEN ArrayMethods_rotate_euler(h, self, phi, theta_, psi)
        ELSE Methods_rotate_euler(h, self, phi, theta_, psi)

setattr(h, self, name, value) ==
    IF IsArray(h[self]) THEN ArrayMethods_set(h, self, name, value)
    ELSE Methods_set(h, self, name, value)

(***************************************************************************)
(* The inputs of the calls.                                                *)
(***************************************************************************)
Lens == 0 .. MaxLen

Ramp(n, a) == Arr(SubSeq([i \in 1 .. n |-> Rat(a + i - 1)], 1, n))

Mult(n, a) == Arr(SubSeq([i \in 1 .. n |-> Rat(a * i)], 1, n))

(* a column of n angles, all q *)
AngleCol(n, q) == Arr(SubSeq([i \in 1 .. n |-> Rat(q)], 1, n))

(* the coordinates a receiver can have: what the constructors make of their
   inputs and what the setters store, with the undetermined float *)
ScalarVals == {Num(a) : a \in Coord} \cup {Mul(Num(a), Num(0)) : a \in Coord} \cup {Sc(Unk)}

ColsOf ==
    [n \in Lens |-> {Ramp(n, a) : a \in Coord} \cup {Mul(Ramp(n, a), zeros(n)) : a \in Coord}
                       \cup {Arr(SubSeq([i \in 1 .. n |-> Unk], 1, n))}]

Cols(n) == ColsOf[n]

(* v is a vector of these coordinates *)
InBounds(v) ==
    \/ /\ IsScalar(v)
       /\ \A name \in {"fX", "fY", "fZ"} : v[name] \in ScalarVals
    \/ /\ IsArray(v)
       /\ v.length \in Lens
       /\ \A name \in {"fX", "fY", "fZ"} : v[name] \in Cols(v.length)

Vec == {TVector3(Num(a), Num(b), Num(c)) : a \in Coord, b \in Coord, c \in Coord}

OthersOf ==
    [n \in Lens |-> {TVector3Array(Mult(n, a), Mult(n, b), Mult(n, c)) :
                        a \in Coord, b \in Coord, c \in Coord}]

Others(n) == OthersOf[n]

(* the vectors a call on the receiver o is given *)
ArgsFor(o) == IF IsArray(o) THEN Others(o.length) \cup Vec ELSE Vec

(* the values a coordinate of the receiver o is set to *)
ValuesFor(o) == IF IsArray(o) THEN {Ramp(o.length, a) : a \in Coord} ELSE {Num(a) : a \in Coord}

UfuncMethods == {"__call__", "reduce", "accumulate", "at"}

Ufuncs == {"add", "multiply", "negative", "modf"}

V(id) == [id |-> id, val |-> NoCol]

P(k) == [id |-> 0, val |-> Num(k)]

(* the operands of a ufunc on the receiver o: the vector in slot 2 and the
   inputs; a method other than "__call__" is rejected before the inputs are
   looked at and is given the receiver and a plain scalar only *)
UfuncInputs(ufunc, method, o) ==
    IF ufunc \in {"add", "multiply"}
    THEN {[o |-> b, ins |-> <<V(1), V(2)>>] : b \in IF method = "__call__" THEN Others(o.length) ELSE {}}
         \cup {[o |-> Null, ins |-> <<V(1), V(1)>>]}
         \cup {[o |-> Null, ins |-> <<V(1), P(k)>>] : k \in Coord}
         \cup {[o |-> Null, ins |-> <<P(k), V(1)>>] : k \in IF method = "__call__" THEN Coord ELSE {}}
    ELSE {[o |-> Null, ins |-> <<V(1)>>]}

(***************************************************************************)
(* The state machine.  heap holds the objects; call is the last call made,  *)
(* with the receiver and the vector argument as they were when it was      *)
(* made; ret is what it returned or raised, applied the number of ufunc    *)
(* applications it made.                                                   *)
(***************************************************************************)
MkCall(op, arg, argv, vals) ==
    [op |-> op, recv |-> heap[1], arg |-> arg, argv |-> argv, vals |-> vals,
     method |-> "", ufunc |-> "", inputs |-> <<>>]

Init ==
    /\ heap = [i \in 1 .. 4 |-> Null]
    /\ call = MkCall("", 0, Null, <<>>)
    /\ ret = NoRet
    /\ applied = 0

(* the results of the last call have been dropped: the next call can be made *)
Idle == call.op = ""

Step(r, c) ==
    /\ \E o \in {r} :
         /\ heap' = o.heap
         /\ ret' = o.ret
         /\ applied' = o.applied
    /\ call' = c

(* the caller, not the module: it drops the argument and the results of the
   last call and keeps the vector it made the call on *)
Discard ==
    /\ ~Idle
    /\ heap' = [heap EXCEPT ![2] = Null, ![3] = Null, ![4] = Null]
    /\ call' = MkCall("", 0, Null, <<>>)
    /\ ret' = NoRet
    /\ applied' = 0

(* the caller, not the module: it goes on with the vector the last call
   returned and drops the one it made the call on, so that the next calls are
   made on a result; slot 1 now names the returned vector *)
Adopt ==
    /\ ~Idle
    /\ ret.tag = "return" /\ ret.kind = "vec"
    /\ ret.ids[1] # 1
    /\ InBounds(heap[ret.ids[1]])
    /\ heap' = [i \in 1 .. 4 |-> IF i = 1 THEN heap[ret.ids[1]] ELSE Null]
    /\ call' = [MkCall("", 0, Null, <<>>) EXCEPT !.recv = heap'[1]]
    /\ ret' = NoRet
    /\ applied' = 0

(* the caller passes the vector o *)
Caller(o) == [heap EXCEPT ![2] = o]

ArgId(o) == IF o.kind = "null" THEN 1 ELSE 2

NewTVector3 ==
    /\ Idle
    /\ heap[1].kind = "null"
    /\ \E a \in Coord, b \in Coord, c \in Coord :
         Step(TVector3_new(heap, Num(a), Num(b), Num(c)),
              MkCall("TVector3", 0, Null, <<Num(a), Num(b), Num(c)>>))

NewTVector3Array ==
    /\ Idle
    /\ heap[1].kind = "null"
    /\ \E n1 \in Lens, n2 \in Lens, n3 \in Lens, a \in Coord, b \in Coord, c \in Coord :
         LET x == Ramp(n1, a)
             y == Ramp(n2, b)
             z == Ramp(n3, c)
         IN  Step(TVector3Array_new(heap, x, y, z), MkCall("TVector3Array", 0, Null, <<x, y, z>>))

ScalarFromCylindrical ==
    /\ Idle
    /\ heap[1].kind = "null"
    /\ \E r \in Coord, q \in Angles, c \in Coord :
         Step(TVector3_from_cylindrical_new(heap, Num(r), Num(q), Num(c)),
              MkCall("TVector3.from_cylindrical", 0, Null, <<Num(r), Num(q), Num(c)>>))

ArrayFromCylindrical ==
    /\ Idle
    /\ heap[1].kind = "null"
    /\ \E n \in Lens, q \in Angles, c \in Coord :
         \E args \in {<<Ramp(n, 1), AngleCol(n, q), Ramp(n, c)>>}
                       \cup {<<Ramp(n, a), Ramp(n, 1), AngleCol(n, q), Ramp(n, c)>> : a \in Coord} :
            Step(TVector3Array_from_cylindrical(heap, args),
                 MkCall("TVector3Array.from_cylindrical", 0, Null, args))

ScalarOrigin ==
    /\ Idle
    /\ heap[1].kind = "null"
    /\ Step(TVector3_origin(heap), MkCall("TVector3.origin", 0, Null, <<>>))

ScalarFromSpherical ==
    /\ Idle
    /\ heap[1].kind = "null"
    /\ \E r \in Coord, t \in Angles, q \in Angles :
         Step(TVector3_from_spherical(heap, Num(r), Num(t), Num(q)),
              MkCall("TVector3.from_spherical", 0, Null, <<Num(r), Num(t), Num(q)>>))

ArrayOrigin ==
    /\ Idle
    /\ heap[1].kind = "null"
    /\ \E n \in Lens :
         Step(TVector3Array_origin(heap, n), MkCall("TVector3Array.origin", 0, Null, <<Num(n)>>))

ArrayOriginLike ==
    /\ Idle
    /\ heap[1].kind = "null"
    /\ \E n \in Lens, a \in Coord :
         Step(TVector3Array_origin_like(heap, Ramp(n, a)),
              MkCall("TVector3Array.origin_like", 0, Null, <<Ramp(n, a)>>))

ArrayFromSpherical ==
    /\ Idle
    /\ heap[1].kind = "null"
    /\ \E n \in Lens, r \in Coord, t \in Angles, q \in Angles :
         LET args == <<Ramp(n, r), AngleCol(n, t), AngleCol(n, q)>>
         IN  Step(TVector3Array_from_spherical(heap, args[1], args[2], args[3]),
                  MkCall("TVector3Array.from_spherical", 0, Null, args))

(* cross and rotate_axis are followed on vectors of determined coordinates,
   those whose results can be compared *)
Cross ==
    /\ Idle
    /\ heap[1].kind # "null"
    /\ \E o \in ArgsFor(heap[1]) \cup {Null} :
         LET h == Caller(o)
         IN  Step(cross(h, 1, ArgId(o)), MkCall("cross", ArgId(o), h[ArgId(o)], <<>>))

Dot ==
    /\ Idle
    /\ heap[1].kind # "null"
    /\ \E o \in ArgsFor(heap[1]) \cup {Null} :
         LET h == Caller(o)
         IN  Step(dot(h, 1, ArgId(o)), MkCall("dot", ArgId(o), h[ArgId(o)], <<>>))

CotTheta ==
    /\ Idle
    /\ heap[1].kind # "null"
    /\ \E fault \in BOOLEAN :
         /\ fault => IsScalar(heap[1]) /\ MayBeZero(heap[1].fZ.at[1])
         /\ Step(cottheta(Caller(Null), 1, fault), MkCall("cottheta", 0, Null, <<>>))

Theta ==
    /\ Idle
    /\ heap[1].kind # "null"
    /\ Step(theta(Caller(Null), 1), MkCall("theta", 0, Null, <<>>))

RotateAxis ==
    /\ Idle
    /\ heap[1].kind # "null"
    /\ \E o \in ArgsFor(heap[1]) \cup {Null} :
         /\ \E q \in Angles, fault \in BOOLEAN :
              LET h == Caller(o)
              IN  /\ fault => IsScalar(h[ArgId(o)]) /\ MayBeZeroMag(h[ArgId(o)])
                  /\ Step(rotate_axis(h, 1, ArgId(o), Num(q), fault),
                          MkCall("rotate_axis", ArgId(o), h[ArgId(o)], <<Num(q)>>))

RotateEuler ==
    /\ Idle
    /\ heap[1].kind # "null"
    /\ \E args \in UNION {[1 .. k -> Angles] : k \in 0 .. 3} :
         Step(rotate_euler(Caller(Null), 1, args),
              MkCall("rotate_euler", 0, Null, [i \in 1 .. Len(args) |-> Num(args[i])]))

RotateX ==
    /\ Idle
    /\ heap[1].kind # "null"
    /\ \E q \in Angles :
         Step(Common_rotatex(Caller(Null), 1, Num(q)), MkCall("rotatex", 0, Null, <<Num(q)>>))

RotateY ==
    /\ Idle
    /\ heap[1].kind # "null"
    /\ \E q \in Angles :
         Step(Common_rotatey(Caller(Null), 1, Num(q)), MkCall("rotatey", 0, Null, <<Num(q)>>))

RotateZ ==
    /\ Idle
    /\ heap[1].kind # "null"
    /\ \E q \in Angles :
         Step(Common_rotatez(Caller(Null), 1, Num(q)), MkCall("rotatez", 0, Null, <<Num(q)>>))

SetCoord ==
    /\ Idle
    /\ heap[1].kind # "null"
    /\ \E name \in {"fX", "fY", "fZ"}, value \in ValuesFor(heap[1]) :
         Step(setattr(Caller(Null), 1, name, value), MkCall("set", 0, Null, <<value>>))

ArrayUfunc ==
    /\ Idle
    /\ IsArray(heap[1])
    /\ \E method \in UfuncMethods, ufunc \in Ufuncs :
         \E i \in UfuncInputs(ufunc, method, heap[1]) :
            LET h == Caller(i.o)
            IN  Step(ArrayMethods_array_ufunc(h, 1, ufunc, method, i.ins),
                     [MkCall("__array_ufunc__", ArgId(i.o), h[ArgId(i.o)], <<>>)
                        EXCEPT !.method = method, !.ufunc = ufunc, !.inputs = i.ins])

Next ==
    \/ NewTVector3
    \/ NewTVector3Array
    \/ ScalarFromCylindrical
    \/ ArrayFromCylindrical
    \/ ScalarOrigin
    \/ ScalarFromSpherical
    \/ ArrayOrigin
    \/ ArrayOriginLike
    \/ ArrayFromSpherical
    \/ Cross
    \/ Dot
    \/ CotTheta
    \/ Theta
    \/ RotateAxis
    \/ RotateEuler
    \/ RotateX
    \/ RotateY
    \/ RotateZ
    \/ SetCoord
    \/ ArrayUfunc
    \/ Discard
    \/ Adopt

Spec == Init /\ [][Next]_vars

(***************************************************************************)
(* The properties.                                                         *)
(***************************************************************************)
Returned == ret.tag = "return"

(* the k-th object the last call returned *)
Res(k) == heap[ret.ids[k]]

(* the number of rows of a vector: a scalar vector is one row *)
NRows(v) == IF IsArray(v) THEN v.length ELSE 1

SameCoords(a, b) == a.fX = b.fX /\ a.fY = b.fY /\ a.fZ = b.fZ

(* a == b on floats, where the model determines it: the two zeros are equal,
   NaN equals nothing *)
NumEq(a, b) ==
    /\ ~IsNaN(a) /\ ~IsNaN(b) /\ ~IsUnk(a) /\ ~IsUnk(b)
    /\ (a = b \/ (IsZero(a) /\ IsZero(b)))

(* a and b have the same shape and, entry by entry, coordinates that are equal
   as floats *)
EqCol(a, b) ==
    /\ a.dim = b.dim /\ Len(a.at) = Len(b.at)
    /\ \A i \in 1 .. Len(a.at) : NumEq(a.at[i], b.at[i])

EqCoords(a, b) == EqCol(a.fX, b.fX) /\ EqCol(a.fY, b.fY) /\ EqCol(a.fZ, b.fZ)

(* v is a columnar vector whose three columns have n entries each *)
HasLength(v, n) ==
    /\ IsArray(v)
    /\ v.length = n
    /\ \A name \in {"fX", "fY", "fZ"} : v[name].dim = 1 /\ Len(v[name].at) = n

(* the operand of the last ufunc call at position j, as a triple of components *)
Operand(j) ==
    IF call.inputs[j].id = 1 THEN call.recv
    ELSE IF call.inputs[j].id = 2 THEN call.argv
    ELSE TVector3(call.inputs[j].val, call.inputs[j].val, call.inputs[j].val)

(* C1: a direct elementwise call of add or multiply on a columnar vector and a
   second operand (a columnar vector of the same length, or a plain scalar,
   which stands unchanged in all three positions) returns a new columnar vector
   of the same length whose row i holds, per component, the sum (the product)
   of the operands' row i; the operands are what they were before the call. *)
C1_ElementwiseDispatch ==
    (call.op = "__array_ufunc__" /\ call.method = "__call__"
        /\ call.ufunc \in {"add", "multiply"}) =>
       /\ Returned /\ ret.kind = "vec" /\ ret.ids[1] \notin {1, 2}
       /\ HasLength(Res(1), call.recv.length)
       /\ \A i \in 1 .. call.recv.length : \A name \in {"fX", "fY", "fZ"} :
             Res(1)[name].at[i] =
                IF call.ufunc = "add"
                THEN NumAdd(El(Operand(1)[name], i), El(Operand(2)[name], i))
                ELSE NumMul(El(Operand(1)[name], i), El(Operand(2)[name], i))
       /\ heap[1] = call.recv
       /\ (call.arg = 2 => heap[2] = call.argv)

C1_Witness ==
    /\ call.op = "__array_ufunc__" /\ call.method = "__call__"
    /\ call.ufunc = "multiply" /\ call.inputs = <<V(1), P(-1)>>
    /\ call.recv.length = 2 /\ Returned
    /\ Res(1).fX.at = <<Rat(-1), Rat(-2)>>

(* C2: TVector3Array(x, y, z) has the length of the shortest of x, y and z, and
   its three columns have that length; every columnar vector in the heap has
   three columns of its length; and every vector that cross, rotate_axis,
   rotate_euler or an elementwise call on a columnar receiver of length n
   returns is columnar with three columns of length n. *)
C2_LengthInvariant ==
    /\ call.op = "TVector3Array" =>
          /\ Returned
          /\ HasLength(Res(1), Min2(Len(call.vals[1].at),
                                    Min2(Len(call.vals[2].at), Len(call.vals[3].at))))
    /\ \A i \in DOMAIN heap : IsArray(heap[i]) => HasLength(heap[i], heap[i].length)
    /\ (call.op \in {"cross", "rotate_axis", "rotate_euler", "__array_ufunc__"}
          /\ IsArray(call.recv) /\ Returned) =>
          \A k \in 1 .. Len(ret.ids) : HasLength(Res(k), call.recv.length)

C2_Witness ==
    /\ call.op = "TVector3Array" /\ Returned
    /\ Len(call.vals[1].at) = 2 /\ Len(call.vals[2].at) = 1 /\ Len(call.vals[3].at) = 2
    /\ Res(1).length = 1

(* C3: rotate_euler on a scalar vector returns a new scalar vector whose
   coordinates are those the Euler kernel computes from the receiver and the
   three angles (each 0 when omitted), so the receiver's own coordinates when
   all three are omitted; it does not raise. *)
C3_ScalarRotateEuler ==
    (call.op = "rotate_euler" /\ IsScalar(call.recv)) =>
       /\ Returned /\ ret.kind = "vec"
       /\ LET ang(j) == IF Len(call.vals) >= j THEN call.vals[j] ELSE Num(0)
              k == Common_rotate_euler(call.recv, ang(1), ang(2), ang(3))
          IN  /\ IsScalar(Res(1))
              /\ Res(1).fX = k[1] /\ Res(1).fY = k[2] /\ Res(1).fZ = k[3]
              /\ (Len(call.vals) = 0 => SameCoords(Res(1), call.recv))

(* C4: an elementwise call whose method is not "__call__" ends in the
   "not implemented" signal (NotImplemented returned, or NotImplementedError
   raised), applies no ufunc and neither allocates nor changes a vector. *)
C4_OtherMethodsNotImplemented ==
    (call.op = "__array_ufunc__" /\ call.method # "__call__") =>
       /\ \/ ret.tag = "return" /\ ret.kind = "NotImplemented"
          \/ ret.tag = "raise" /\ ret.exc = "NotImplementedError"
       /\ applied = 0
       /\ heap[1] = call.recv /\ heap[3].kind = "null" /\ heap[4].kind = "null"

(* C5: an elementwise call with the method "at" returns None and does not
   raise. *)
C5_AtReturnsNone ==
    (call.op = "__array_ufunc__" /\ call.method = "at") => ret = RetNone

(* row i of the cross product of a and b, written out *)
CrossRow(a, b, i) ==
    << NumSub(NumMul(El(a.fY, i), El(b.fZ, i)), NumMul(El(a.fZ, i), El(b.fY, i))),
       NumSub(NumMul(El(a.fZ, i), El(b.fX, i)), NumMul(El(a.fX, i), El(b.fZ, i))),
       NumSub(NumMul(El(a.fX, i), El(b.fY, i)), NumMul(El(a.fY, i), El(b.fX, i))) >>

(* a == b on floats, or neither is a float the model determines *)
EqOrUnk(a, b) == (IsUnk(a) /\ IsUnk(b)) \/ NumEq(a, b)

(* C6: a.cross(b) returns a vector of a's form whose row i is
   (ay*bz - az*by, az*bx - ax*bz, ax*by - ay*bx), and each component is the
   negation of the same component of the cross product of b and a: equal to it
   as a float where the operands determine the component, undetermined on both
   sides where they do not. *)
C6_CrossAntiCommutative ==
    call.op = "cross" =>
       /\ Returned /\ ret.kind = "vec"
       /\ Res(1).kind = call.recv.kind
       /\ LET rev == Common_cross(call.argv, call.recv)
          IN  \A i \in 1 .. NRows(call.recv) :
                 /\ <<Res(1).fX.at[i], Res(1).fY.at[i], Res(1).fZ.at[i]>>
                       = CrossRow(call.recv, call.argv, i)
                 /\ EqOrUnk(Res(1).fX.at[i], NumNeg(El(rev[1], i)))
                 /\ EqOrUnk(Res(1).fY.at[i], NumNeg(El(rev[2], i)))
                 /\ EqOrUnk(Res(1).fZ.at[i], NumNeg(El(rev[3], i)))
       /\ Len(Res(1).fX.at) = NRows(call.recv)

C6_Witness ==
    /\ call.op = "cross" /\ Returned
    /\ IsArray(call.recv) /\ IsArray(call.argv) /\ call.recv.length = 2
    /\ Determined(call.recv) /\ ~IsZero(Res(1).fZ.at[2])

(* the receiver and the unit vector of the axis of the last call are floats
   the model determines *)
ExactCall == Determined(call.recv) /\ ExactMag(call.argv)

(* C7 as stated: rotate_axis by the angle 0 returns the receiver's
   coordinates, whatever the axis, an axis of zero magnitude included. *)
C7_ZeroAngleAnyAxis ==
    (call.op = "rotate_axis" /\ call.vals[1] = Num(0) /\ ExactCall) =>
       Returned /\ ret.kind = "vec" /\ EqCoords(Res(1), call.recv)

(* C7 amended: rotate_axis by the angle 0 about an axis no row of which has
   zero magnitude returns the receiver's coordinates. *)
C7_ZeroAngleNonZeroAxis ==
    (call.op = "rotate_axis" /\ call.vals[1] = Num(0) /\ ExactCall /\ ~ZeroMag(call.argv)) =>
       Returned /\ ret.kind = "vec" /\ EqCoords(Res(1), call.recv)

C7_Witness ==
    /\ call.op = "rotate_axis" /\ call.vals[1] = Num(0) /\ ExactCall /\ ~ZeroMag(call.argv)
    /\ IsArray(call.recv) /\ call.recv.length = 2 /\ call.arg = 2
    /\ Returned /\ Res(1).fX.at = <<Rat(1), Rat(2)>>

(* C8: TVector3Array.from_cylindrical(rho, phi, z), called with three aligned
   sequences of length n, returns a columnar vector of length n whose row i is
   TVector3.from_cylindrical(rho[i], phi[i], z[i]); its z column is z. *)
C8_ArrayFromCylindrical ==
    (call.op = "TVector3Array.from_cylindrical" /\ Len(call.vals) = 3) =>
       /\ Returned /\ ret.kind = "vec"
       /\ HasLength(Res(1), Len(call.vals[1].at))
       /\ \A i \in 1 .. Len(call.vals[1].at) :
             LET v == TVector3_from_cylindrical(Sc(call.vals[1].at[i]), Sc(call.vals[2].at[i]),
                                                Sc(call.vals[3].at[i]))
             IN  /\ Res(1).fX.at[i] = v.fX.at[1]
                 /\ Res(1).fY.at[i] = v.fY.at[1]
                 /\ Res(1).fZ.at[i] = v.fZ.at[1]
       /\ Res(1).fZ = call.vals[3]

(* C9: rotatex, rotatey and rotatez return, without raising, what rotate_axis
   returns about (1,0,0), (0,1,0) and (0,0,1); the rotation matrix about z
   with cos = 0 and sin = 1 taken exactly takes (1,0,0) to (0,1,0). *)
C9_AxisAlignedRotations ==
    (call.op \in {"rotatex", "rotatey", "rotatez"}) =>
       /\ Returned /\ ret.kind = "vec"
       /\ LET axis == IF call.op = "rotatex" THEN TVector3(Num(1), Num(0), Num(0))
                      ELSE IF call.op = "rotatey" THEN TVector3(Num(0), Num(1), Num(0))
                      ELSE TVector3(Num(0), Num(0), Num(1))
              k == Common_rotate_axis(call.recv, axis, call.vals[1])
          IN  Res(1).fX = k[1] /\ Res(1).fY = k[2] /\ Res(1).fZ = k[3]
       /\ EqCoords(TVector3(Num(0), Num(1), Num(0)),
                   LET k == Common_rotate_axis_matrix(TVector3(Num(1), Num(0), Num(0)),
                                                      unit(TVector3(Num(0), Num(0), Num(1))),
                                                      Num(0), Num(1), Num(1))
                   IN  TVector3(k[1], k[2], k[3]))

GeometricOps == {"dot", "cross", "cottheta", "theta", "rotate_axis", "rotate_euler"}

(* C10: a step that is a dot, cross, cottheta, theta, rotate_axis or
   rotate_euler call leaves the receiver and the vector argument as they were,
   and a vector it returns is in neither's place; a step that changes the
   coordinates of the receiver is a call of a coordinate setter. *)
C10_NoMutation ==
    [][ /\ call'.op \in GeometricOps =>
             /\ heap'[1] = heap[1]
             /\ (call'.arg = 2 => heap'[2] = call'.argv)
             /\ \A k \in 1 .. Len(ret'.ids) : ret'.ids[k] \notin {1, 2}
        /\ (call'.op # "" /\ heap[1].kind # "null" /\ heap'[1] # heap[1])
              => call'.op = "set" ]_vars

(* a cross call on a batch whose x column, of signed zeros, is one that only
   from_spherical makes and whose y and z columns are ones that setters store *)
C10_Witness ==
    /\ call.op = "cross" /\ Returned /\ IsArray(call.recv) /\ call.recv.length = 2
    /\ call.recv.fX = Mul(Ramp(2, -1), zeros(2))
    /\ call.recv.fY = Ramp(2, 1) /\ call.recv.fZ = Ramp(2, 0)
    /\ call.arg = 2 /\ ret.ids = <<3>> /\ ~SameCoords(Res(1), heap[1])

====
